---- MODULE Spec2Model ----
(***************************************************************************)
(* Model of the hybrid LLM / classical planning coordinator:               *)
(*   HybridPlanningCoordinator.plan and _solve_subgoal_with_retry          *)
(*   (hybrid_coordinator.py and hybrid_coordinator_blocks_world.py),       *)
(*   the blocks-world simulator _update_state_after_plan with its          *)
(*   _apply_* helpers, _validate_blocks_world_state, and the methods of    *)
(*   LLMHighlevelPlanner (llm_interface.py).                               *)
(*                                                                         *)
(* A Python dict holding a world state is a record: `keys` is the set of   *)
(* keys present, the other fields hold the values (a list is a sequence,   *)
(* duplicates and order kept); the field of an absent key holds the        *)
(* default <<>> / FALSE and is never read as present.  None is NoneVal.    *)
(* An action token (a Python str) is a sequence of lexemes: the separator  *)
(* characters " ", "(", ")", "," and maximal runs of other characters.     *)
(***************************************************************************)
EXTENDS Integers, Sequences, FiniteSets, TLC

VARIABLES
    \* ---- one run of plan() or of _solve_subgoal_with_retry() ----
    variant,        \* which module the coordinator class comes from
    entry,          \* the method the caller invoked
    initial_state,  \* plan(): the caller's initial_state
    subgoals,       \* plan(): the conflict-resolved subgoal list
    k,              \* plan(): position of the for loop in subgoals (1-based)
    complete_plan,  \* plan(): complete_plan
    current_state,  \* plan(): current_state
    subgoal,        \* retry: the (rebound) subgoal
    attempt,        \* retry: the loop variable attempt
    max_retries,    \* retry: the parameter max_retries
    retry_ret,      \* retry: the value returned
    pc,             \* position of the run
    result,         \* the value returned to the caller
    logged,         \* logger.error records, as subgoal ids
    calls,          \* number of solve / adapt calls issued in this run
    tries,          \* the same, within the current retry invocation
    last_call,      \* the latest call to a capability, with its arguments
    exhausted,      \* some retry invocation ran out of attempts
    solve_ret,      \* success, plan of the retry loop: the latest answer
                    \* of solve_subgoal
    solved,         \* action lists of the successful solves, in order
    aliased,        \* keys whose list in current_state is initial_state's
    trace,          \* capability calls of the retry invocation in progress
    \* ---- one call of _update_state_after_plan(state, plan) ----
    state,          \* the argument state
    plan,           \* the argument plan
    i,              \* how many elements of plan the for loop has consumed
    new_state,      \* the local new_state
    sim_pc,         \* position of the call
    final_state,    \* the caller's final_state (the value returned)
    valid,          \* the validator's verdict on final_state
    shared,         \* keys whose list in new_state is the argument's list
    todo,           \* validator: blocks the current for loop has yet to visit
    \* ---- one call of a method of LLMHighlevelPlanner ----
    llm_method,     \* the method called
    model,          \* self.model
    request,        \* keyword arguments given to chat.completions.create
    content,        \* response.choices[0].message.content
    llm_pc,         \* position of the call, or the exception it raised
    llm_ret         \* the value returned

coordVars == <<variant, entry, initial_state, subgoals, k, complete_plan,
               current_state, subgoal, attempt, max_retries, retry_ret, pc,
               result, logged, calls, tries, last_call, exhausted,
               solve_ret, solved, aliased, trace>>
simVars == <<state, plan, i, new_state, sim_pc, final_state, valid, shared,
             todo>>
llmVars == <<llm_method, model, request, content, llm_pc, llm_ret>>
vars == <<coordVars, simVars, llmVars>>

(***************************************************************************)
(* Bounds                                                                  *)
(***************************************************************************)
MaxPlanLen == 2      \* longest freely chosen plan given to the simulator
MaxTower == 5        \* tallest tower scenario
MaxSubgoals == 3     \* longest conflict-resolved subgoal list
MaxRetriesArg == 3   \* largest max_retries passed by a direct caller
MaxValBlocks == 2    \* blocks of the states given to the validator

DefaultMaxRetries == 3

(***************************************************************************)
(* Python values                                                           *)
(***************************************************************************)
NoneVal == [isNone |-> TRUE]

KeyNames == {"ontable", "clear", "holding", "on", "handempty"}

EmptyDict ==
    [keys |-> {}, ontable |-> <<>>, clear |-> <<>>, holding |-> <<>>,
     on |-> <<>>, handempty |-> FALSE]

Dict(ontable, clear, holding, handempty, on) ==
    [keys |-> KeyNames, ontable |-> ontable, clear |-> clear,
     holding |-> holding, on |-> on, handempty |-> handempty]

Has(s, key) == key \in s.keys

Contains(seq, x) == \E j \in 1..Len(seq) : seq[j] = x

ToSet(seq) == {seq[j] : j \in 1..Len(seq)}

\* list.remove(x): drops the first occurrence
RemoveFirst(seq, x) ==
    LET j == CHOOSE n \in 1..Len(seq) :
                 seq[n] = x /\ \A m \in 1..(n - 1) : seq[m] # x
    IN  SubSeq(seq, 1, j - 1) \o SubSeq(seq, j + 1, Len(seq))

RECURSIVE Filter(_, _)
Filter(seq, drop) ==
    IF seq = <<>> THEN <<>>
    ELSE IF Head(seq) = drop THEN Filter(Tail(seq), drop)
    ELSE <<Head(seq)>> \o Filter(Tail(seq), drop)

RECURSIVE Concat(_)
Concat(seqs) ==
    IF seqs = <<>> THEN <<>> ELSE Head(seqs) \o Concat(Tail(seqs))

(***************************************************************************)
(* The simulator's effects: _apply_pickup, _apply_putdown, _apply_stack,   *)
(* _apply_unstack.  Each mutates the dict it is given; here each returns   *)
(* the dict after the mutation.                                            *)
(***************************************************************************)
\* mutant of PickupHand: the hand flag is left alone
PickupHandKept(s) == s

\* lines 166-168
PickupHand(s) ==
    IF Has(s, "handempty") THEN [s EXCEPT !.handempty = FALSE] ELSE s

\* mutant of PickupTable: the block stays on the table
PickupTableKept(s, block) == s

\* lines 155-157
PickupTable(s, block) ==
    IF Has(s, "ontable") /\ Contains(s.ontable, block)
    THEN [s EXCEPT !.ontable = RemoveFirst(@, block)] ELSE s

_apply_pickup(s, block) ==
    LET s1 == PickupTable(s, block)
        s2 == IF Has(s1, "clear") /\ Contains(s1.clear, block)
              THEN [s1 EXCEPT !.clear = RemoveFirst(@, block)] ELSE s1
        s3 == [s2 EXCEPT !.holding = <<block>>, !.keys = @ \cup {"holding"}]
    IN  PickupHand(s3)

\* mutant of PutdownHolding: the block stays in holding
PutdownHoldingKept(s, block) == s

\* lines 175-177
PutdownHolding(s, block) ==
    IF Has(s, "holding") /\ Contains(s.holding, block)
    THEN [s EXCEPT !.holding = RemoveFirst(@, block)] ELSE s

_apply_putdown(s, block) ==
    LET s1 == PutdownHolding(s, block)
        s2 == [s1 EXCEPT !.ontable = Append(@, block),
                         !.keys = @ \cup {"ontable"}]
        s3 == [s2 EXCEPT !.clear = Append(@, block),
                         !.keys = @ \cup {"clear"}]
    IN  [s3 EXCEPT !.handempty = TRUE, !.keys = @ \cup {"handempty"}]

\* mutant of StackClear: block_b stays clear
StackClearKept(s, block_a, block_b) ==
    [s EXCEPT !.clear = Append(@, block_a), !.keys = @ \cup {"clear"}]

\* lines 201-203, 210-213
StackClear(s, block_a, block_b) ==
    LET s1 == IF Has(s, "clear") /\ Contains(s.clear, block_b)
              THEN [s EXCEPT !.clear = RemoveFirst(@, block_b)] ELSE s
    IN  [s1 EXCEPT !.clear = Append(@, block_a), !.keys = @ \cup {"clear"}]

_apply_stack(s, block_a, block_b) ==
    LET s1 == IF Has(s, "holding") /\ Contains(s.holding, block_a)
              THEN [s EXCEPT !.holding = RemoveFirst(@, block_a)] ELSE s
        s2 == [s1 EXCEPT !.on = Append(@, <<block_a, block_b>>),
                         !.keys = @ \cup {"on"}]
        s3 == StackClear(s2, block_a, block_b)
    IN  [s3 EXCEPT !.handempty = TRUE, !.keys = @ \cup {"handempty"}]

\* mutant of UnstackOn: the pair stays in on
UnstackOnKept(s, block_a, block_b) == s

\* lines 224-225
UnstackOn(s, block_a, block_b) ==
    IF Has(s, "on")
    THEN [s EXCEPT !.on = Filter(@, <<block_a, block_b>>)] ELSE s

_apply_unstack(s, block_a, block_b) ==
    LET s1 == UnstackOn(s, block_a, block_b)
        s2 == IF Has(s1, "clear") /\ Contains(s1.clear, block_a)
              THEN [s1 EXCEPT !.clear = RemoveFirst(@, block_a)] ELSE s1
        s3 == [s2 EXCEPT !.clear = Append(@, block_b),
                         !.keys = @ \cup {"clear"}]
        s4 == [s3 EXCEPT !.holding = <<block_a>>,
                         !.keys = @ \cup {"holding"}]
    IN  [s4 EXCEPT !.handempty = FALSE, !.keys = @ \cup {"handempty"}]

(***************************************************************************)
(* Token normalisation, _update_state_after_plan lines 76-77:              *)
(*   action_str.strip().replace('(', ' ').replace(')', '').replace(',',' ')*)
(*   parts = action_str.split()                                            *)
(***************************************************************************)
RECURSIVE LStrip(_)
LStrip(tok) ==
    IF tok # <<>> /\ Head(tok) = " " THEN LStrip(Tail(tok)) ELSE tok

RECURSIVE RStrip(_)
RStrip(tok) ==
    IF tok # <<>> /\ tok[Len(tok)] = " "
    THEN RStrip(SubSeq(tok, 1, Len(tok) - 1)) ELSE tok

Strip(tok) == RStrip(LStrip(tok))

\* the three replace() calls: "(" and "," become a blank, ")" disappears
RECURSIVE Replace(_)
Replace(tok) ==
    IF tok = <<>> THEN <<>>
    ELSE LET c == Head(tok)
         IN  IF c = "(" \/ c = "," THEN <<" ">> \o Replace(Tail(tok))
             ELSE IF c = ")" THEN Replace(Tail(tok))
             ELSE <<c>> \o Replace(Tail(tok))

\* str.split(): the maximal blank-free runs; a run is kept as its lexemes
RECURSIVE SplitAcc(_, _, _)
SplitAcc(tok, word, acc) ==
    IF tok = <<>>
    THEN IF word = <<>> THEN acc ELSE Append(acc, word)
    ELSE IF Head(tok) = " "
         THEN SplitAcc(Tail(tok), <<>>,
                       IF word = <<>> THEN acc ELSE Append(acc, word))
         ELSE SplitAcc(Tail(tok), Append(word, Head(tok)), acc)

Split(tok) == SplitAcc(tok, <<>>, <<>>)

RECURSIVE Join(_)
Join(word) == IF word = <<>> THEN "" ELSE Head(word) \o Join(Tail(word))

\* str.lower() on the lexemes the model uses
LowerLexeme(c) ==
    CASE c = "PICKUP" -> "pickup"
      [] c = "Stack" -> "stack"
      [] OTHER -> c

Lower(word) == [j \in 1..Len(word) |-> LowerLexeme(word[j])]

Parts(tok) == Split(Replace(Strip(tok)))

(***************************************************************************)
(* One iteration of the for loop of _update_state_after_plan, lines 73-100.*)
(* The result is the dict after the iteration and the exception raised, if *)
(* any: parts[2] of a two-part stack/unstack token is an IndexError, and   *)
(* every helper starts with `"<key>" in state`, a TypeError on None.       *)
(***************************************************************************)
Skips(parts) == Len(parts) < 2

Done(s) == [state |-> s, exc |-> "none"]

Raise(s, e) == [state |-> s, exc |-> e]

\* mutant of Skip: a strict parser that raises on a short token
SkipRaises(s) == Raise(s, "ValueError")

\* lines 79-80: `continue`
Skip(s) == Done(s)

ApplyAction(s, action_str) ==
    LET parts == Parts(action_str)
        action_name == Join(Lower(parts[1]))
    IN  IF Skips(parts) THEN Skip(s)
        ELSE IF action_name = "pickup"
        THEN IF s = NoneVal THEN Raise(s, "TypeError")
             ELSE Done(_apply_pickup(s, Join(parts[2])))
        ELSE IF action_name = "putdown"
        THEN IF s = NoneVal THEN Raise(s, "TypeError")
             ELSE Done(_apply_putdown(s, Join(parts[2])))
        ELSE IF action_name = "stack"
        THEN IF Len(parts) < 3 THEN Raise(s, "IndexError")
             ELSE IF s = NoneVal THEN Raise(s, "TypeError")
             ELSE Done(_apply_stack(s, Join(parts[2]), Join(parts[3])))
        ELSE IF action_name = "unstack"
        THEN IF Len(parts) < 3 THEN Raise(s, "IndexError")
             ELSE IF s = NoneVal THEN Raise(s, "TypeError")
             ELSE Done(_apply_unstack(s, Join(parts[2]), Join(parts[3])))
        ELSE Done(s)

\* the whole loop over plan, from new_state = s
RECURSIVE Loop(_, _)
Loop(s, actions) ==
    IF actions = <<>> THEN Done(s)
    ELSE LET r == ApplyAction(s, Head(actions))
         IN  IF r.exc # "none" THEN r ELSE Loop(r.state, Tail(actions))

\* what the function hands back once the loop is over: the blocks-world
\* function ends after the loop without a return statement
Returned(s) == NoneVal

\* _update_state_after_plan(state, plan) of hybrid_coordinator_blocks_world
_update_state_after_plan(s, actions) ==
    LET r == Loop(s, actions)
    IN  IF r.exc # "none" THEN [value |-> NoneVal, exc |-> r.exc]
        ELSE [value |-> Returned(r.state), exc |-> "none"]

\* _update_state_after_plan(state, plan) of hybrid_coordinator: the loop
\* body is `pass`, the shallow copy is returned
GenericUpdate(s, actions) == [value |-> s, exc |-> "none"]

(***************************************************************************)
(* Aliasing.  A dict holds references to its lists: a copy of a dict has   *)
(* some of its lists in common with the original (`shares`, a set of       *)
(* keys).  A helper's remove/append on a list in common is seen through    *)
(* the original; an assignment state[key] = ... rebinds the key in the     *)
(* copy only.                                                              *)
(***************************************************************************)
ListKeys == {"ontable", "clear", "holding", "on"}

\* mutant of DeepCopy: copy.copy, the lists stay those of the argument
DeepCopyShallow(s) ==
    [value |-> s,
     shares |-> IF s = NoneVal THEN {} ELSE ListKeys \cap s.keys]

\* line 71: copy.deepcopy(state)
DeepCopy(s) == [value |-> s, shares |-> {}]

\* plan() line 25, initial_state.copy(): a new dict with the same lists
DictCopy(s) == [value |-> s, shares |-> ListKeys \cap s.keys]

\* the keys an iteration assigns a new list to: state["holding"] = [block]
\* (lines 163, 237) and state["on"] = [...] (line 225)
Rebinds(action_str) ==
    LET parts == Parts(action_str)
        action_name == IF Skips(parts) THEN "" ELSE Join(Lower(parts[1]))
    IN  IF action_name = "pickup" THEN {"holding"}
        ELSE IF action_name = "unstack" /\ Len(parts) >= 3
        THEN {"on", "holding"}
        ELSE {}

\* the dict orig, whose lists under the keys sh are the lists of d
Propagate(orig, d, sh) ==
    IF sh = {} THEN orig
    ELSE [orig EXCEPT
            !.ontable = IF "ontable" \in sh THEN d.ontable ELSE @,
            !.clear = IF "clear" \in sh THEN d.clear ELSE @,
            !.holding = IF "holding" \in sh THEN d.holding ELSE @,
            !.on = IF "on" \in sh THEN d.on ELSE @]

\* the dict orig after the loop of lines 73-100 ran over actions on s, the
\* lists of s under the keys sh being lists of orig
RECURSIVE Mutated(_, _, _, _)
Mutated(orig, sh, s, actions) ==
    IF actions = <<>> \/ sh = {} THEN orig
    ELSE LET r == ApplyAction(s, Head(actions))
             sh2 == sh \ Rebinds(Head(actions))
         IN  IF r.exc # "none" THEN orig
             ELSE Mutated(Propagate(orig, r.state, sh2), sh2, r.state,
                          Tail(actions))

(***************************************************************************)
(* _validate_blocks_world_state                                            *)
(***************************************************************************)
ontable_blocks(s) == ToSet(s.ontable)
holding_blocks(s) == ToSet(s.holding)
on_blocks_top(s) == {s.on[j][1] : j \in 1..Len(s.on)}
on_blocks_bottom(s) == {s.on[j][2] : j \in 1..Len(s.on)}

\* mutant of all_blocks: line 117 is missing
all_blocks_without_bottom(s) ==
    ontable_blocks(s) \cup holding_blocks(s) \cup on_blocks_top(s)

all_blocks(s) ==
    ontable_blocks(s) \cup holding_blocks(s) \cup on_blocks_top(s)
        \cup on_blocks_bottom(s)

count(s, block) ==
    (IF block \in ontable_blocks(s) THEN 1 ELSE 0)
    + (IF block \in holding_blocks(s) THEN 1 ELSE 0)
    + (IF block \in on_blocks_top(s) THEN 1 ELSE 0)

clear_blocks(s) == ToSet(s.clear)

_validate_blocks_world_state(s) ==
    /\ \A block \in all_blocks(s) : count(s, block) = 1
    /\ \A block \in ontable_blocks(s) :
           ~(block \notin on_blocks_bottom(s) /\ block \notin clear_blocks(s))
    /\ \A block \in on_blocks_top(s) :
           ~(block \notin on_blocks_bottom(s) /\ block \notin clear_blocks(s))

(***************************************************************************)
(* Inputs of the simulator                                                 *)
(***************************************************************************)
BlockNames == <<"a", "b", "c", "d", "e", "f", "g">>

Blocks == {"a", "b"}

Tok1(verb, x) == <<verb, " ", x>>
Tok2(verb, x, y) == <<verb, " ", x, " ", y>>

\* well-formed tokens of the four verbs, in the plain form "verb x [y]"
ValidTokens ==
    {Tok1(v, x) : v \in {"pickup", "putdown"}, x \in Blocks}
        \cup {Tok2(v, x, y) : v \in {"stack", "unstack"}, x \in Blocks,
                              y \in Blocks}

\* the other accepted spellings: "(pickup a)", "stack(b, a)" (what
\* str(action) of the planner gives), "PICKUP b", " putdown a "
FormTokens ==
    { <<"(", "pickup", " ", "a", ")">>,
      <<"stack", "(", "b", ",", " ", "a", ")">>,
      <<"PICKUP", " ", "b">>,
      <<" ", "putdown", " ", "a", " ">> }

\* tokens of fewer than two parts
ShortTokens == { <<>>, <<"noop">>, <<"(", "pickup", ")">> }

\* two parts, no known verb; a two-part stack
OddTokens == { <<"fly", " ", "a">>, <<"stack", " ", "a">> }

Tokens == ValidTokens \cup FormTokens \cup ShortTokens \cup OddTokens

SeqsUpTo(S, n) == UNION {[1..m -> S] : m \in 0..n}

FreePlans == SeqsUpTo(Tokens, MaxPlanLen)

\* one short token between two well-formed ones
SkipPlans == {<<A, w, B>> : A \in ValidTokens, w \in ShortTokens,
                            B \in ValidTokens}

RECURSIVE TowerPlan(_)
TowerPlan(n) ==
    IF n < 2 THEN <<>>
    ELSE TowerPlan(n - 1)
             \o <<Tok1("pickup", BlockNames[n]),
                  Tok2("stack", BlockNames[n], BlockNames[n - 1])>>

AllOnTable(n) ==
    Dict(SubSeq(BlockNames, 1, n), SubSeq(BlockNames, 1, n), <<>>, TRUE, <<>>)

\* the states the free plans start from: the consistent two-block states
\* (up to renaming a and b), the empty dict, a dict without "handempty",
\* two inconsistent dicts, and a dict the validator accepts whose held
\* block is listed as clear
SimStates ==
    { AllOnTable(2),
      Dict(<<"b">>, <<"a">>, <<>>, TRUE, << <<"a", "b">> >>),
      Dict(<<"a">>, <<"a">>, <<"b">>, FALSE, <<>>),
      EmptyDict,
      [AllOnTable(2) EXCEPT !.keys = KeyNames \ {"handempty"},
                            !.handempty = FALSE],
      Dict(<<"a", "b">>, <<"a">>, <<>>, TRUE, << <<"a", "b">> >>),
      Dict(<<"a", "b">>, <<"b">>, <<"a">>, TRUE, <<>>),
      Dict(<<"a">>, <<"a", "b">>, <<"b">>, FALSE, <<>>) }

SimInputs ==
    (SimStates \X (FreePlans \cup SkipPlans))
        \cup {<<AllOnTable(n), TowerPlan(n)>> : n \in 1..MaxTower}

(***************************************************************************)
(* Inputs and capabilities of the coordinator.  The decomposition and the  *)
(* solve capability are injected objects (llm_planner, classical_planner): *)
(* what they return is chosen freely from small sets.                      *)
(***************************************************************************)
Sg(id, rev) == [subgoal_id |-> id, rev |-> rev]

NoSubgoal == Sg(0, 0)

\* what decompose_goal followed by resolve_conflicts returns: n subgoals,
\* ids ascending or descending
SubgoalLists ==
    {[j \in 1..n |-> Sg(j, 0)] : n \in 0..MaxSubgoals}
        \cup {[j \in 1..n |-> Sg(n + 1 - j, 0)] : n \in 2..MaxSubgoals}

\* what adapt_plan returns: a revised subgoal, its id kept or not
Adapted(sg) == {Sg(sg.subgoal_id, 1), Sg(sg.subgoal_id + 1, 1)}

\* action lists of a successful solve (str(action) gives "pickup(b)")
SolverPlans ==
    { <<>>,
      << <<"pickup", "(", "b", ")">> >>,
      << <<"pickup", "(", "b", ")">>,
         <<"stack", "(", "b", ",", " ", "a", ")">> >>,
      << <<"noop">> >> }

\* the list that comes with a failed solve: planner_interface lines 56, 59
FailureLists == { <<>>, << <<"Planning", " ", "error:", " ", "boom">> >> }

InitialStates ==
    { AllOnTable(2),
      Dict(<<"b">>, <<"a">>, <<>>, TRUE, << <<"a", "b">> >>) }

NoCalls == [solve |-> 0, adapt |-> 0]

NoCall == [op |-> "none", subgoal |-> NoSubgoal, state |-> NoneVal,
           k |-> 0, info |-> 0]

NoRequest ==
    [method |-> "none", model |-> "none", keyword |-> "none",
     temperature |-> 0]

(***************************************************************************)
(* The simulator specification: a caller builds (state, plan), calls       *)
(* _update_state_after_plan (one step per loop iteration), keeps what it   *)
(* returns as final_state and validates it, as the example tests do.       *)
(***************************************************************************)
LlmIdle ==
    /\ llm_method = "none"
    /\ model = "none"
    /\ request = NoRequest
    /\ content = <<>>
    /\ llm_pc = "idle"
    /\ llm_ret = NoneVal

CoordIdle ==
    /\ variant = "blocks_world"
    /\ entry = "update"
    /\ initial_state = NoneVal
    /\ subgoals = <<>>
    /\ k = 0
    /\ complete_plan = <<>>
    /\ current_state = NoneVal
    /\ subgoal = NoSubgoal
    /\ attempt = 0
    /\ max_retries = 0
    /\ retry_ret = <<FALSE, <<>>>>
    /\ pc = "idle"
    /\ result = <<FALSE, <<>>>>
    /\ logged = <<>>
    /\ calls = NoCalls
    /\ tries = NoCalls
    /\ last_call = NoCall
    /\ exhausted = FALSE
    /\ solve_ret = <<FALSE, <<>>>>
    /\ solved = <<>>
    /\ aliased = {}
    /\ trace = <<>>

SimIdle ==
    /\ state = NoneVal
    /\ plan = <<>>
    /\ i = 0
    /\ new_state = NoneVal
    /\ sim_pc = "idle"
    /\ final_state = NoneVal
    /\ valid = "unset"
    /\ shared = {}
    /\ todo = {}

SimInit ==
    /\ CoordIdle
    /\ LlmIdle
    /\ shared = {}
    /\ todo = {}
    /\ \E in \in SimInputs : state = in[1] /\ plan = in[2]
    /\ i = 0
    /\ new_state = NoneVal
    /\ sim_pc = "call"
    /\ final_state = NoneVal
    /\ valid = "unset"

\* line 71: new_state = copy.deepcopy(state)
SimEnter ==
    /\ sim_pc = "call"
    /\ LET c == DeepCopy(state)
       IN  new_state' = c.value /\ shared' = c.shares
    /\ sim_pc' = "loop"
    /\ UNCHANGED <<coordVars, llmVars, todo, state, plan, i, final_state,
                   valid>>

\* lines 73-100: one iteration of the for loop
SimStep ==
    /\ sim_pc = "loop"
    /\ i < Len(plan)
    /\ LET r == ApplyAction(new_state, plan[i + 1])
           sh == IF r.exc = "none" /\ shared # {}
                 THEN shared \ Rebinds(plan[i + 1])
                 ELSE shared
       IN  /\ new_state' = r.state
           /\ shared' = sh
           /\ state' = Propagate(state, r.state, sh)
           /\ sim_pc' = IF r.exc = "none" THEN "loop" ELSE r.exc
    /\ i' = i + 1
    /\ UNCHANGED <<coordVars, llmVars, todo, plan, final_state, valid>>

\* the loop is over and the function ends; example lines 41, 87, 132:
\* final_state = coordinator._update_state_after_plan(initial_state, plan)
SimReturn ==
    /\ sim_pc = "loop"
    /\ i = Len(plan)
    /\ final_state' = Returned(new_state)
    /\ sim_pc' = "returned"
    /\ UNCHANGED <<coordVars, llmVars, todo, state, plan, i, new_state, valid,
                   shared>>

\* example lines 45, 90, 135: _validate_blocks_world_state(final_state);
\* state.get on None is an AttributeError
SimValidate ==
    /\ sim_pc = "returned"
    /\ IF final_state = NoneVal
       THEN /\ sim_pc' = "AttributeError"
            /\ valid' = valid
       ELSE /\ sim_pc' = "validated"
            /\ valid' = IF _validate_blocks_world_state(final_state)
                        THEN "True" ELSE "False"
    /\ UNCHANGED <<coordVars, llmVars, todo, state, plan, i, new_state,
                   final_state, shared>>

SimNext == SimEnter \/ SimStep \/ SimReturn \/ SimValidate

SimSpec == SimInit /\ [][SimNext]_vars

(***************************************************************************)
(* The validator specification: _validate_blocks_world_state(final_state)  *)
(* on a dict, one step per loop iteration.  The three for loops iterate    *)
(* over Python sets, whose order is not fixed: each iteration takes any    *)
(* block not yet visited.  A logger.error record is kept as the number of  *)
(* the check and the block it names.                                       *)
(***************************************************************************)
ValBlocks == ToSet(SubSeq(BlockNames, 1, MaxValBlocks))

\* the list of the elements of S, in the order of seq
Listing(seq, S) == SelectSeq(seq, LAMBDA x : x \in S)

PairList ==
    [n \in 1..(MaxValBlocks * MaxValBlocks) |->
        <<BlockNames[((n - 1) \div MaxValBlocks) + 1],
          BlockNames[((n - 1) % MaxValBlocks) + 1]>>]

\* dicts over ValBlocks, consistent or not: any blocks on the table, held
\* and clear, either value of handempty, at most two on pairs of distinct
\* blocks; and the empty dict
ValStates ==
    { Dict(Listing(BlockNames, T), Listing(BlockNames, C),
           Listing(BlockNames, H), e, Listing(PairList, O)) :
        T \in SUBSET ValBlocks, C \in SUBSET ValBlocks,
        H \in SUBSET ValBlocks, e \in BOOLEAN,
        O \in {P \in SUBSET {q \in ToSet(PairList) : q[1] # q[2]} :
                   Cardinality(P) <= 2} }
        \cup {EmptyDict}

Diagnostic(check, block) == [check |-> check, block |-> block]

\* mutant of ReturnsAt: the violation is logged and the loop goes on
KeepsLooping(pos) == pos

\* lines 131, 140, 146: return False
ReturnsAt(pos) == "validated"

ValInit ==
    /\ CoordIdle
    /\ LlmIdle
    /\ state = NoneVal
    /\ plan = <<>>
    /\ i = 0
    /\ new_state = NoneVal
    /\ shared = {}
    /\ final_state \in ValStates
    /\ sim_pc = "validate"
    /\ valid = "unset"
    /\ todo = {}

ValFrame ==
    UNCHANGED <<variant, entry, initial_state, subgoals, k, complete_plan,
                current_state, subgoal, attempt, max_retries, retry_ret, pc,
                result, calls, tries, last_call, exhausted, solve_ret,
                solved, aliased, trace, llmVars, state, plan, i, new_state, final_state,
                shared>>

\* a violation found at block by the loop at pos: lines 129-131, 138-140,
\* 144-146
ValViolation(pos, check, block) ==
    /\ logged' = Append(logged, Diagnostic(check, block))
    /\ sim_pc' = ReturnsAt(pos)
    /\ valid' = IF sim_pc' = "validated" THEN "False" ELSE valid
    /\ todo' = todo \ {block}

\* lines 106-117: the sets of blocks; line 120 starts the first loop
ValCollect ==
    /\ sim_pc = "validate"
    /\ sim_pc' = "places"
    /\ todo' = all_blocks(final_state)
    /\ UNCHANGED <<logged, valid>>
    /\ ValFrame

\* lines 120-131: each block is in exactly one place; lines 134, 137 when
\* the loop is over
ValPlaces ==
    /\ sim_pc = "places"
    /\ IF todo = {}
       THEN /\ sim_pc' = "table"
            /\ todo' = ontable_blocks(final_state)
            /\ UNCHANGED <<logged, valid>>
       ELSE \E block \in todo :
                IF count(final_state, block) # 1
                THEN ValViolation("places", 1, block)
                ELSE /\ todo' = todo \ {block}
                     /\ UNCHANGED <<logged, valid, sim_pc>>
    /\ ValFrame

\* lines 137-140: blocks on the table are clear unless covered; line 143
\* when the loop is over
ValTable ==
    /\ sim_pc = "table"
    /\ IF todo = {}
       THEN /\ sim_pc' = "top"
            /\ todo' = on_blocks_top(final_state)
            /\ UNCHANGED <<logged, valid>>
       ELSE \E block \in todo :
                IF /\ block \notin on_blocks_bottom(final_state)
                   /\ block \notin clear_blocks(final_state)
                THEN ValViolation("table", 2, block)
                ELSE /\ todo' = todo \ {block}
                     /\ UNCHANGED <<logged, valid, sim_pc>>
    /\ ValFrame

\* lines 143-146: blocks on top of a stack are clear; line 148, return
\* True, when the loop is over
ValTop ==
    /\ sim_pc = "top"
    /\ IF todo = {}
       THEN /\ sim_pc' = "validated"
            /\ valid' = "True"
            /\ UNCHANGED <<logged, todo>>
       ELSE \E block \in todo :
                IF /\ block \notin on_blocks_bottom(final_state)
                   /\ block \notin clear_blocks(final_state)
                THEN ValViolation("top", 3, block)
                ELSE /\ todo' = todo \ {block}
                     /\ UNCHANGED <<logged, valid, sim_pc>>
    /\ ValFrame

ValNext == ValCollect \/ ValPlaces \/ ValTable \/ ValTop

ValSpec == ValInit /\ [][ValNext]_vars

(***************************************************************************)
(* Vocabulary of the claims about the simulator                            *)
(***************************************************************************)
Verb(tok) ==
    LET parts == Parts(tok)
    IN  IF Len(parts) < 2 THEN "" ELSE Join(Lower(parts[1]))

Arg(tok, n) == Join(Parts(tok)[n + 1])

\* a token the loop turns into one of the four effects
IsAction(tok) ==
    LET verb == Verb(tok)
    IN  \/ verb \in {"pickup", "putdown"}
        \/ verb \in {"stack", "unstack"} /\ Len(Parts(tok)) >= 3

IsShort(tok) == Len(Parts(tok)) < 2

\* hand_empty is true
HandEmpty(s) == Has(s, "handempty") /\ s.handempty

HandAgrees(s) == HandEmpty(s) <=> (s.holding = <<>>)

NoDup(seq) == \A m, n \in 1..Len(seq) : seq[m] = seq[n] => m = n

Covered(s) == on_blocks_bottom(s)

Referenced(s) == all_blocks(s) \cup clear_blocks(s)

\* each referenced block is in exactly one of on_table, holding, top of on
Placement(s) == \A block \in Referenced(s) : count(s, block) = 1

\* the data model of a blocks world: sets without duplicates, at most one
\* held block, hand_empty iff nothing is held, every block in one place and
\* on at most one block with at most one block on it, nothing on a held
\* block, and clear exactly the blocks that are neither held nor covered
Consistent(s) ==
    /\ s # NoneVal
    /\ s.keys = KeyNames
    /\ NoDup(s.ontable) /\ NoDup(s.clear) /\ NoDup(s.holding) /\ NoDup(s.on)
    /\ Len(s.holding) <= 1
    /\ HandAgrees(s)
    /\ Placement(s)
    /\ \A m, n \in 1..Len(s.on) :
           (s.on[m][1] = s.on[n][1] \/ s.on[m][2] = s.on[n][2]) => m = n
    /\ holding_blocks(s) \cap Covered(s) = {}
    /\ clear_blocks(s) = Referenced(s) \ (holding_blocks(s) \cup Covered(s))

\* the STRIPS precondition of an action token (the comments of _apply_*)
Pre(s, tok) ==
    LET v == Verb(tok)
        x == Arg(tok, 1)
    IN  \/ /\ v = "pickup"
           /\ x \in clear_blocks(s)
           /\ x \in ontable_blocks(s)
           /\ HandEmpty(s)
        \/ /\ v = "putdown"
           /\ x \in holding_blocks(s)
        \/ /\ v = "stack"
           /\ x \in holding_blocks(s)
           /\ Arg(tok, 2) \in clear_blocks(s)
        \/ /\ v = "unstack"
           /\ Contains(s.on, <<x, Arg(tok, 2)>>)
           /\ x \in clear_blocks(s)
           /\ HandEmpty(s)

\* every token of actions is an action token whose precondition holds in
\* the state it is applied to, starting from s
RECURSIVE LegalRun(_, _)
LegalRun(s, actions) ==
    \/ actions = <<>>
    \/ /\ IsAction(Head(actions))
       /\ Pre(s, Head(actions))
       /\ LegalRun(ApplyAction(s, Head(actions)).state, Tail(actions))

Consumed == SubSeq(plan, 1, i)

\* the loop has consumed i tokens without raising
InLoop == sim_pc = "loop"

\* the exception the loop itself ended with
LoopExc ==
    IF sim_pc \in {"call", "loop", "returned", "validated", "AttributeError"}
    THEN "none" ELSE sim_pc

\* new_state before the latest iteration
Before == Loop(state, SubSeq(plan, 1, i - 1)).state

(***************************************************************************)
(* Claims about the simulator (checked under SimSpec)                      *)
(***************************************************************************)

\* C4: _update_state_after_plan always returns the state it constructed by
\* applying the tokens, never None.
C4_ApplyReturnsState ==
    sim_pc = "returned" => final_state = new_state

\* C6 (as claimed): from a consistent initial state, after any sequence of
\* tokens, each referenced block is in exactly one of on_table, holding,
\* top of on.
C6_PlacementAnyTokens ==
    (InLoop /\ Consistent(state)) => Placement(new_state)

\* C6 (amended): from a consistent initial state, after any sequence of
\* action tokens each of which satisfies its STRIPS precondition in the
\* state it is applied to, each referenced block is in exactly one of
\* on_table, holding, top of on.
C6_PlacementLegalTokens ==
    (InLoop /\ Consistent(state) /\ LegalRun(state, Consumed))
        => Placement(new_state)

C6_Witness ==
    /\ InLoop /\ i = 2
    /\ Consistent(state) /\ LegalRun(state, Consumed)
    /\ Verb(plan[1]) = "unstack" /\ Verb(plan[2]) = "stack"
    /\ Placement(new_state)

\* C7 (as claimed): after every simulated step hand_empty is true iff
\* holding is empty.
C7_HandAgreesAnyStep ==
    (InLoop /\ i >= 1 /\ IsAction(plan[i])) => HandAgrees(new_state)

\* the hand held nothing other than one x before the step
HoldsAtMost(s, x) == s.holding = <<>> \/ s.holding = <<x>>

\* C7 (amended): after every simulated pickup or unstack step, and after
\* every simulated putdown x or stack x y step taken when no block other
\* than a single x was held, hand_empty is true iff holding is empty.
C7_HandAgreesHeldOperand ==
    (/\ InLoop /\ i >= 1 /\ IsAction(plan[i])
     /\ \/ Verb(plan[i]) \in {"pickup", "unstack"}
        \/ HoldsAtMost(Before, Arg(plan[i], 1)))
        => HandAgrees(new_state)

C7_Witness ==
    /\ InLoop /\ i = 2
    /\ Verb(plan[1]) = "pickup" /\ Verb(plan[2]) = "putdown"
    /\ Before.holding = <<Arg(plan[2], 1)>>
    /\ new_state.holding = <<>> /\ HandEmpty(new_state)

IsTower(s, n) ==
    /\ s # NoneVal
    /\ ToSet(s.on) = {<<BlockNames[j], BlockNames[j - 1]>> : j \in 2..n}
    /\ clear_blocks(s) = {BlockNames[n]}
    /\ ontable_blocks(s) = {BlockNames[1]}
    /\ s.holding = <<>>
    /\ HandEmpty(s)

TowerRun(n) == state = AllOnTable(n) /\ plan = TowerPlan(n)

\* C8: from n blocks on the table, the plan pickup b2, stack b2 b1, ...,
\* pickup bn, stack bn b(n-1) yields the chain on = {(b2,b1),...}, clear =
\* {bn}, on_table = {b1}, nothing held, hand_empty, and the validator
\* accepts the result.
C8_TowerResult ==
    \A n \in 1..MaxTower :
        TowerRun(n) =>
            /\ sim_pc = "returned" => IsTower(final_state, n)
            /\ sim_pc # "AttributeError"
            /\ sim_pc = "validated" => valid = "True"

\* the dict the tower plan constructs inside the call is the expected one
\* and the validator accepts that dict
TowerConstructed ==
    \A n \in 1..MaxTower :
        (TowerRun(n) /\ sim_pc = "returned") =>
            IsTower(new_state, n) /\ _validate_blocks_world_state(new_state)

RoundTrip(x) ==
    /\ InLoop /\ i >= 2
    /\ plan[i - 1] = Tok1("pickup", x)
    /\ plan[i] = Tok1("putdown", x)

BeforeTwo == Loop(state, SubSeq(plan, 1, i - 2)).state

Restored(s, r, x) ==
    /\ (x \in ontable_blocks(r)) = (x \in ontable_blocks(s))
    /\ (x \in clear_blocks(r)) = (x \in clear_blocks(s))
    /\ holding_blocks(r) = holding_blocks(s)
    /\ HandEmpty(r) = HandEmpty(s)

\* C9 (as claimed): for every state in which x is clear and on the table,
\* pickup x then putdown x restores x's membership in on_table and clear,
\* and holding and hand_empty.
C9_RoundTripAnyHand ==
    \A x \in Blocks :
        (/\ RoundTrip(x)
         /\ x \in clear_blocks(BeforeTwo)
         /\ x \in ontable_blocks(BeforeTwo))
            => Restored(BeforeTwo, new_state, x)

\* C9 (amended): for every state in which x is clear and on the table and
\* the hand is empty (holding empty, hand_empty true), the state that
\* pickup x then putdown x construct has x's membership in on_table and
\* clear, holding and hand_empty as in the original state.
C9_RoundTripEmptyHand ==
    \A x \in Blocks :
        (/\ RoundTrip(x)
         /\ x \in clear_blocks(BeforeTwo)
         /\ x \in ontable_blocks(BeforeTwo)
         /\ BeforeTwo.holding = <<>>
         /\ HandEmpty(BeforeTwo))
            => Restored(BeforeTwo, new_state, x)

C9_Witness ==
    /\ RoundTrip("a")
    /\ "a" \in clear_blocks(BeforeTwo)
    /\ "a" \in ontable_blocks(BeforeTwo)
    /\ BeforeTwo.holding = <<>>
    /\ HandEmpty(BeforeTwo)
    /\ new_state.ontable = <<"b", "a">>

RECURSIVE DropShort(_)
DropShort(actions) ==
    IF actions = <<>> THEN <<>>
    ELSE IF IsShort(Head(actions)) THEN DropShort(Tail(actions))
    ELSE <<Head(actions)>> \o DropShort(Tail(actions))

\* C10: a plan with a short (fewer than two parts) token among its tokens
\* leaves the simulator in the same state, or with the same exception, as
\* the plan with the short tokens removed.
C10_SkipTolerance ==
    (sim_pc = "returned" \/ LoopExc # "none") =>
        LET ref == Loop(state, DropShort(Consumed))
        IN  /\ LoopExc = ref.exc
            /\ LoopExc = "none" => new_state = ref.state

C10_Witness ==
    /\ sim_pc = "returned"
    /\ Len(plan) = 3
    /\ IsAction(plan[1]) /\ IsAction(plan[3])
    /\ Len(Parts(plan[2])) = 1
    /\ new_state = Loop(state, <<plan[1], plan[3]>>).state
    /\ new_state # state

\* C11: every malformed or unrecognized token (fewer than two parts, an
\* unknown verb, a stack or unstack with one operand) is skipped: the step
\* raises nothing and leaves the state as it was.
C11_SimulationSkip ==
    (i >= 1 /\ (InLoop \/ LoopExc # "none") /\ ~IsAction(plan[i])) =>
        /\ LoopExc = "none"
        /\ new_state = Before

\* a state as the relations of the data model: sets, and hand_empty
View(s) ==
    [ontable |-> ontable_blocks(s), clear |-> clear_blocks(s),
     holding |-> holding_blocks(s), on |-> ToSet(s.on),
     handempty |-> HandEmpty(s)]

\* the add/delete effects of a well-formed token on the relations v
TableEffect(v, tok) ==
    LET x == Arg(tok, 1)
        y == Arg(tok, 2)
        verb == Verb(tok)
    IN  IF verb = "pickup"
        THEN [v EXCEPT !.ontable = @ \ {x}, !.clear = @ \ {x},
                       !.holding = {x}, !.handempty = FALSE]
        ELSE IF verb = "putdown"
        THEN [v EXCEPT !.holding = @ \ {x}, !.ontable = @ \cup {x},
                       !.clear = @ \cup {x}, !.handempty = TRUE]
        ELSE IF verb = "stack"
        THEN [v EXCEPT !.holding = @ \ {x},
                       !.clear = (@ \ {y}) \cup {x},
                       !.on = @ \cup {<<x, y>>},
                       !.handempty = TRUE]
        ELSE [v EXCEPT !.on = @ \ {<<x, y>>},
                       !.clear = (@ \ {x}) \cup {y},
                       !.holding = {x}, !.handempty = FALSE]

\* the latest iteration applied a well-formed token
Stepped == InLoop /\ i >= 1 /\ IsAction(plan[i])

\* C20 (as claimed): for every state and every well-formed token the state
\* the simulator produces equals, relation by relation as sets, the
\* effects of the table; relations not named are unchanged.
C20_EffectsAnyState ==
    Stepped => View(new_state) = TableEffect(View(Before), plan[i])

\* C20 (amended): for every state that holds no object twice in on_table,
\* in clear or in holding, and every well-formed token, the state the
\* simulator produces equals, relation by relation as sets, the effects
\* of the table; relations not named are unchanged.
C20_EffectsNoDuplicates ==
    Stepped =>
        LET before == Before
        IN  (/\ NoDup(before.ontable) /\ NoDup(before.clear)
             /\ NoDup(before.holding))
                => View(new_state) = TableEffect(View(before), plan[i])

C20_Witness ==
    /\ Stepped /\ i = 2
    /\ Verb(plan[1]) = "unstack" /\ Verb(plan[2]) = "stack"
    /\ Before.holding = <<Arg(plan[2], 1)>>
    /\ Arg(plan[2], 2) \in clear_blocks(Before)
    /\ Arg(plan[2], 2) \notin clear_blocks(new_state)
    /\ NoDup(Before.ontable) /\ NoDup(Before.clear)
    /\ View(new_state) = TableEffect(View(Before), plan[i])

\* C14: _update_state_after_plan never mutates its argument: no step of a
\* call changes the dict passed in or the lists it holds.
C14_ArgumentUnchanged == [][state' = state]_vars

C14_Witness ==
    /\ sim_pc = "returned"
    /\ state \in SimStates
    /\ \E j \in 1..Len(plan) : Verb(plan[j]) = "pickup"
    /\ \E j \in 1..Len(plan) : Verb(plan[j]) = "stack"
    /\ new_state.ontable # state.ontable
    /\ new_state.clear # state.clear
    /\ new_state.on # state.on

\* the validator accepts the dict
Accepted(s) == s # NoneVal /\ _validate_blocks_world_state(s)

\* what C22 promises of the state after a step
KeptConsistent(s) ==
    /\ Accepted(s)
    /\ HandAgrees(s)
    /\ Len(s.holding) <= 1
    /\ NoDup(s.ontable) /\ NoDup(s.clear) /\ NoDup(s.on)

\* C22 (as claimed): from a state the validator accepts, with hand_empty
\* iff holding is empty, any sequence of tokens each satisfying its STRIPS
\* precondition when applied yields after every step a state the validator
\* accepts, with hand_empty iff holding empty, at most one held block and
\* no duplicate entries in on_table, clear or on.
C22_LegalFromAccepted ==
    (/\ InLoop /\ i >= 1
     /\ Accepted(state) /\ HandAgrees(state)
     /\ LegalRun(state, Consumed))
        => KeptConsistent(new_state)

\* C22 (amended): from a state that satisfies the whole data model (no
\* duplicate entries, at most one held block, hand_empty iff holding
\* empty, every block in exactly one place, on at most one block and under
\* at most one block, nothing on a held block, clear exactly the blocks
\* neither held nor covered), any sequence of tokens each satisfying its
\* STRIPS precondition when applied yields after every step a state that
\* satisfies the data model again, which the validator accepts, with
\* hand_empty iff holding empty, at most one held block and no duplicate
\* entries in on_table, clear or on.
C22_LegalFromConsistent ==
    (/\ InLoop /\ i >= 1
     /\ Consistent(state)
     /\ LegalRun(state, Consumed))
        => (KeptConsistent(new_state) /\ Consistent(new_state))

C22_Witness ==
    /\ InLoop /\ i = 2
    /\ Consistent(state) /\ LegalRun(state, Consumed)
    /\ Verb(plan[1]) = "unstack" /\ Verb(plan[2]) = "putdown"
    /\ new_state.on = <<>>
    /\ Len(new_state.ontable) = 2 /\ Len(new_state.clear) = 2
    /\ KeptConsistent(new_state)

(***************************************************************************)
(* The decomposition capability: one call of decompose_goal,               *)
(* resolve_conflicts or adapt_plan of LLMHighlevelPlanner.  The text of a  *)
(* response is a sequence of lexemes; the model's answers are JSON texts   *)
(* of subgoals and the texts a chat model gives instead.                   *)
(***************************************************************************)
LlmMethods == {"decompose_goal", "resolve_conflicts", "adapt_plan"}

\* __init__(self, model="gpt-4")
Models == {"gpt-4", "gpt-3.5-turbo"}

\* the keyword arguments of chat.completions.create, lines 37-41, 65-69,
\* 92-96; temperature in tenths
Request(method, m) ==
    [method |-> method,
     model |-> m,
     keyword |-> IF method = "adapt_plan" THEN "message" ELSE "messages",
     temperature |-> IF method = "decompose_goal" THEN 3 ELSE 2]

NumberLexemes == <<"1", "2", "3", "4", "5">>

JsonObject(id) == <<"{", "\"subgoal_id\"", ":", " ", NumberLexemes[id], "}">>

RECURSIVE JsonElements(_)
JsonElements(n) ==
    IF n = 0 THEN <<>>
    ELSE IF n = 1 THEN JsonObject(1)
    ELSE JsonElements(n - 1) \o <<",", " ">> \o JsonObject(n)

JsonList(n) == <<"[">> \o JsonElements(n) \o <<"]">>

\* a Markdown code fence around the text
Fenced(text) == <<"~~~json">> \o text \o <<"~~~">>

Contents ==
    {JsonList(n) : n \in 0..MaxSubgoals}
        \cup {JsonObject(id) : id \in 1..MaxSubgoals}
        \cup {Fenced(JsonList(n)) : n \in 0..MaxSubgoals}
        \cup {SubSeq(JsonList(n), 1, Len(JsonList(n)) - 1) :
                 n \in 1..MaxSubgoals}
        \cup { <<>>,
               <<"Here", " ", "are", " ", "the", " ", "subgoals">>,
               JsonObject(1) \o <<" ", "Done">> }

Parsed(value) == [ok |-> TRUE, value |-> value]

JSONDecodeError == [ok |-> FALSE, value |-> NoneVal]

ParseObject(toks) ==
    IF /\ Len(toks) = 5
       /\ toks[1] = "{" /\ toks[2] = "\"subgoal_id\"" /\ toks[3] = ":"
       /\ toks[4] \in ToSet(NumberLexemes)
       /\ toks[5] = "}"
    THEN Parsed(Sg(CHOOSE n \in 1..Len(NumberLexemes) :
                       NumberLexemes[n] = toks[4], 0))
    ELSE JSONDecodeError

RECURSIVE ParseElements(_)
ParseElements(toks) ==
    IF Len(toks) < 5 THEN JSONDecodeError
    ELSE LET first == ParseObject(SubSeq(toks, 1, 5))
         IN  IF ~first.ok THEN JSONDecodeError
             ELSE IF Len(toks) = 5 THEN Parsed(<<first.value>>)
             ELSE IF toks[6] # "," THEN JSONDecodeError
             ELSE LET rest == ParseElements(SubSeq(toks, 7, Len(toks)))
                  IN  IF rest.ok THEN Parsed(<<first.value>> \o rest.value)
                      ELSE JSONDecodeError

\* json.loads on a text: blanks between the lexemes are skipped; a list of
\* subgoal objects or one subgoal object is a value, any other text is a
\* JSONDecodeError
json_loads(text) ==
    LET toks == Filter(text, " ")
    IN  IF toks = <<>> THEN JSONDecodeError
        ELSE IF toks[1] = "["
        THEN IF Len(toks) < 2 \/ toks[Len(toks)] # "]" THEN JSONDecodeError
             ELSE IF Len(toks) = 2 THEN Parsed(<<>>)
             ELSE ParseElements(SubSeq(toks, 2, Len(toks) - 1))
        ELSE ParseObject(toks)

\* the attributes of an LLMHighlevelPlanner: __init__ sets model and
\* client, the class defines three methods
Attributes ==
    {"model", "client", "__init__", "decompose_goal", "resolve_conflicts",
     "adapt_plan"}

LlmInit ==
    /\ CoordIdle
    /\ SimIdle
    /\ llm_method \in LlmMethods
    /\ model \in Models
    /\ request = NoRequest
    /\ content = <<>>
    /\ llm_pc = "call"
    /\ llm_ret = NoneVal

\* lines 37-41, 65-69, 92-96: self.client.chat.completions.create(...);
\* create takes the keyword messages and has no parameter message
LlmCreate ==
    /\ llm_pc = "call"
    /\ request' = Request(llm_method, model)
    /\ IF request'.keyword = "messages"
       THEN content' \in Contents /\ llm_pc' = "created"
       ELSE content' = content /\ llm_pc' = "TypeError"
    /\ UNCHANGED <<coordVars, simVars, llm_method, model, llm_ret>>

\* lines 43-46, 71-74: try: return json.loads(...) except JSONDecodeError
LlmParse ==
    /\ llm_pc = "created"
    /\ LET r == json_loads(content)
       IN  IF r.ok
           THEN llm_ret' = r.value /\ llm_pc' = "returned"
           ELSE llm_ret' = llm_ret /\ llm_pc' = "except"
    /\ UNCHANGED <<coordVars, simVars, llm_method, model, request, content>>

\* lines 47, 75: return self._fallback_parse(...), an attribute lookup
LlmFallback ==
    /\ llm_pc = "except"
    /\ llm_pc' = IF "_fallback_parse" \in Attributes THEN "fallback"
                 ELSE "AttributeError"
    /\ UNCHANGED <<coordVars, simVars, llm_method, model, request, content,
                   llm_ret>>

LlmNext == LlmCreate \/ LlmParse \/ LlmFallback

LlmSpec == LlmInit /\ [][LlmNext]_vars

(***************************************************************************)
(* Claims about the decomposition capability (checked under LlmSpec)       *)
(***************************************************************************)
Malformed(text) == ~json_loads(text).ok

\* the call got a response and is over
Answered == llm_pc \in {"returned", "AttributeError"}

\* C16: a call of decompose_goal, resolve_conflicts or adapt_plan that gets
\* a malformed (non-JSON) response recovers by a fallback parse and returns
\* a value; it raises nothing.
C16_MalformedRecovered ==
    \A m \in LlmMethods :
        (llm_method = m /\ Answered /\ Malformed(content)) =>
            llm_pc = "returned"

\* no call of adapt_plan returns, whatever the model would answer
AdaptNeverReturns == llm_method = "adapt_plan" => llm_pc # "returned"

(***************************************************************************)
(* Claims about the validator (checked under ValSpec)                      *)
(***************************************************************************)
Validated == sim_pc = "validated"

\* the stepwise validator and the predicate give the same verdict
VerdictAgrees ==
    Validated =>
        (valid = "True" <=> _validate_blocks_world_state(final_state))

Categorised(s) ==
    ontable_blocks(s) \cup holding_blocks(s) \cup on_blocks_top(s)

\* check 1 over the blocks of B, checks 2 and 3
OnePlace(s, B) == \A block \in B : count(s, block) = 1

TableClear(s) ==
    \A block \in ontable_blocks(s) \ on_blocks_bottom(s) :
        block \in clear_blocks(s)

TopClear(s) ==
    \A block \in on_blocks_top(s) \ on_blocks_bottom(s) :
        block \in clear_blocks(s)

BottomOnly(s) == on_blocks_bottom(s) \ Categorised(s)

\* C12 (as claimed): the verdict is true exactly when (1) every block in
\* on_table, holding or a top of on is in exactly one of those three, (2)
\* every uncovered on_table block is clear, (3) every uncovered top is clear.
C12_VerdictThreeChecks ==
    Validated =>
        (valid = "True" <=>
            /\ OnePlace(final_state, Categorised(final_state))
            /\ TableClear(final_state)
            /\ TopClear(final_state))

\* C12 (amended): the verdict is true exactly when (1) every block in
\* on_table, holding, a top of on or a bottom of on is in exactly one of
\* on_table, holding, top of on, (2) every uncovered on_table block is
\* clear, (3) every uncovered top is clear; a block that is only a bottom
\* of an on pair makes the verdict false.
C12_VerdictWithBottoms ==
    Validated =>
        /\ valid = "True" <=>
              /\ OnePlace(final_state,
                          Categorised(final_state)
                              \cup on_blocks_bottom(final_state))
              /\ TableClear(final_state)
              /\ TopClear(final_state)
        /\ BottomOnly(final_state) # {} => valid = "False"

C12_Witness ==
    /\ Validated
    /\ valid = "False"
    /\ BottomOnly(final_state) # {}
    /\ OnePlace(final_state, Categorised(final_state))
    /\ TableClear(final_state)
    /\ TopClear(final_state)

\* the violated object/check combinations of a state
Violations(s) ==
    {Diagnostic(1, block) : block \in {b \in all_blocks(s) : count(s, b) # 1}}
        \cup {Diagnostic(2, block) :
                 block \in (ontable_blocks(s) \ on_blocks_bottom(s))
                               \ clear_blocks(s)}
        \cup {Diagnostic(3, block) :
                 block \in (on_blocks_top(s) \ on_blocks_bottom(s))
                               \ clear_blocks(s)}

\* the violations of the earliest check that has one
FirstViolations(s) ==
    LET V(c) == {d \in Violations(s) : d.check = c}
    IN  IF V(1) # {} THEN V(1) ELSE IF V(2) # {} THEN V(2) ELSE V(3)

\* C13 (as claimed): for a state with k violated object/check combinations
\* the validator reports false together with k diagnostics, one per
\* violation.
C13_AllViolationsReported ==
    (Validated /\ Violations(final_state) # {}) =>
        /\ valid = "False"
        /\ ToSet(logged) = Violations(final_state)
        /\ Len(logged) = Cardinality(Violations(final_state))

\* C13 (amended): the validator stops at the first violation it meets: for
\* a state with k >= 1 violated object/check combinations it reports false
\* together with exactly one diagnostic, for a violation of the earliest
\* check (1, 2, 3) that is violated; with no violation it reports true
\* and no diagnostic.
C13_FirstViolationReported ==
    Validated =>
        IF Violations(final_state) = {}
        THEN valid = "True" /\ logged = <<>>
        ELSE /\ valid = "False"
             /\ Len(logged) = 1
             /\ logged[1] \in FirstViolations(final_state)

C13_Witness ==
    /\ Validated
    /\ valid = "False"
    /\ Cardinality(Violations(final_state)) >= 3
    /\ \E c \in {2, 3} : \E d \in Violations(final_state) : d.check = c
    /\ Len(logged) = 1
    /\ logged[1].check = 1

\* the referenced blocks that are neither held nor covered by an on pair
\* and are missing from clear
Unclear(s) ==
    (Referenced(s) \ (holding_blocks(s) \cup Covered(s))) \ clear_blocks(s)

\* the half of C21 about clear: a state with a block that is neither held
\* nor covered and is missing from clear is rejected
UnclearRejected ==
    (Validated /\ Unclear(final_state) # {}) => valid = "False"

\* C21: the validator returns false for any state in which hand_empty
\* disagrees with the emptiness of holding, and for any state in which a
\* block that is neither held nor covered by an on pair is missing from
\* clear.
C21_WholeInvariantChecked ==
    Validated =>
        /\ ~HandAgrees(final_state) => valid = "False"
        /\ Unclear(final_state) # {} => valid = "False"

\* a dict whose only defect is its hand flag is accepted
HandFlagAccepted ==
    /\ Validated
    /\ valid = "True"
    /\ Has(final_state, "handempty")
    /\ ~HandAgrees(final_state)
    /\ Unclear(final_state) = {}

(***************************************************************************)
(* The coordinator: plan() and _solve_subgoal_with_retry()                 *)
(***************************************************************************)
Init ==
    /\ SimIdle
    /\ LlmIdle
    /\ aliased = {}
    /\ trace = <<>>
    /\ variant \in {"generic", "blocks_world"}
    /\ entry \in {"plan", "retry"}
    /\ subgoals = <<>>
    /\ k = 0
    /\ complete_plan = <<>>
    /\ attempt = 0
    /\ retry_ret = <<FALSE, <<>>>>
    /\ result = <<FALSE, <<>>>>
    /\ logged = <<>>
    /\ calls = NoCalls
    /\ tries = NoCalls
    /\ last_call = NoCall
    /\ exhausted = FALSE
    /\ solve_ret = <<FALSE, <<>>>>
    /\ solved = <<>>
    /\ \/ /\ entry = "plan"
          /\ initial_state \in InitialStates
          /\ current_state = NoneVal
          /\ subgoal = NoSubgoal
          /\ max_retries = DefaultMaxRetries
          /\ pc = "plan"
       \/ /\ entry = "retry"
          /\ initial_state = NoneVal
          /\ current_state \in InitialStates
          /\ subgoal = Sg(1, 0)
          /\ max_retries \in 0..MaxRetriesArg
          /\ pc = "retry"

\* the dicts current_state can hold after n updates: the update of
\* hybrid_coordinator returns the dict it is given
RECURSIVE StatesAfter(_)
StatesAfter(n) ==
    IF n = 0 THEN InitialStates
    ELSE LET before == StatesAfter(n - 1)
         IN  before \cup {_update_state_after_plan(s, actions).value :
                             s \in before, actions \in SolverPlans}

UpdateStates == StatesAfter(MaxSubgoals)

\* the update of either coordinator as a function of the dict and the
\* action list
UpdateTable ==
    [v \in {"generic", "blocks_world"} |->
        [s \in UpdateStates |->
            [actions \in SolverPlans |->
                IF v = "blocks_world"
                THEN _update_state_after_plan(s, actions)
                ELSE GenericUpdate(s, actions)]]]

\* the update of the coordinator in use
Update(s, actions) == UpdateTable[variant][s][actions]

\* mutant of ShouldAdapt: adapt after every failed attempt
ShouldAdaptAlways(a, m) == a < m

\* line 50: if attempt < max_retries - 1
ShouldAdapt(a, m) == a < m - 1

\* mutant of FailureResult: the partial plan is surfaced
FailureWithPlan(partial) == <<FALSE, partial>>

\* line 34: return False, []
FailureResult(partial) == <<FALSE, <<>>>>

\* mutant of RetryFailure: the last solve's list is returned
RetryFailureWithList(actions) == <<FALSE, actions>>

\* line 55: return False, []
RetryFailure(actions) == <<FALSE, <<>>>>

\* what a call of the update leaves in the dict orig, the lists of the
\* argument s under the keys sh being lists of orig
UpdateCaller(orig, sh, s, actions) ==
    IF variant = "blocks_world"
    THEN LET c == DeepCopy(s)
         IN  Mutated(orig, sh \cap c.shares, c.value, actions)
    ELSE orig

\* the keys under which the value the update returns has a list of orig:
\* None has none, the generic update returns state.copy()
UpdateShares(sh, s) ==
    IF variant = "blocks_world" THEN {} ELSE sh \cap DictCopy(s).shares

\* mutant of SolveSuccess: the plan is dropped
SolveSuccessEmpty(actions) == <<TRUE, <<>>>>

\* lines 46-47: if success: return True, plan
SolveSuccess(actions) == <<TRUE, actions>>

\* mutant of error_info: the loop variable itself is reported
error_info_zero_based(a) == a

\* line 51: f"Planning failed on attempt {attempt + 1}", as the number named
error_info(a) == a + 1

\* mutant of FailedRecord: the position in the list is logged
FailedRecordPosition(sg, pos) == pos

\* line 33: f"Failed to solve subgoal {subgoal['subgoal_id']}", as the id
\* named; subgoal is the loop variable of plan()
FailedRecord(sg, pos) == sg.subgoal_id

\* a solve call as the trace keeps it: its arguments, the attempt it
\* belongs to, the flag it returned and, when that is True, the plan
SolveCall(sg, s, a, ok, actions) ==
    [op |-> "solve", subgoal |-> sg, state |-> s, info |-> a + 1,
     ok |-> ok, actions |-> IF ok THEN actions ELSE <<>>,
     adapted |-> NoSubgoal]

AdaptCall(sg, info, adapted) ==
    [op |-> "adapt", subgoal |-> sg, state |-> NoneVal, info |-> info,
     ok |-> TRUE, actions |-> <<>>, adapted |-> adapted]

\* plan() lines 19-25: decompose, resolve conflicts, copy the state
PlanStart ==
    /\ pc = "plan"
    /\ subgoals' \in SubgoalLists
    /\ complete_plan' = <<>>
    /\ LET c == DictCopy(initial_state)
       IN  current_state' = c.value /\ aliased' = c.shares
    /\ k' = 1
    /\ pc' = "for"
    /\ UNCHANGED <<variant, entry, initial_state, subgoal, attempt,
                   max_retries, retry_ret, result, logged, calls, tries,
                   last_call, exhausted, solve_ret, solved, trace, simVars,
                   llmVars>>

\* plan() lines 27-30: the next subgoal goes to _solve_subgoal_with_retry
PlanCallRetry ==
    /\ pc = "for"
    /\ k <= Len(subgoals)
    /\ subgoal' = subgoals[k]
    /\ attempt' = 0
    /\ max_retries' = DefaultMaxRetries
    /\ tries' = NoCalls
    /\ solve_ret' = <<FALSE, <<>>>>
    /\ trace' = <<>>
    /\ pc' = "retry"
    /\ UNCHANGED <<variant, entry, initial_state, subgoals, k, complete_plan,
                   current_state, retry_ret, result, logged, calls,
                   last_call, exhausted, solved, aliased, simVars, llmVars>>

\* plan() line 39: return True, complete_plan
PlanReturn ==
    /\ pc = "for"
    /\ k > Len(subgoals)
    /\ result' = <<TRUE, complete_plan>>
    /\ pc' = "done"
    /\ UNCHANGED <<variant, entry, initial_state, subgoals, k, complete_plan,
                   current_state, subgoal, attempt, max_retries, retry_ret,
                   logged, calls, tries, last_call, exhausted, solve_ret,
                   solved, aliased, trace, simVars, llmVars>>

\* retry lines 43-50: one solve call and what the loop does with its answer
Solve ==
    /\ pc = "retry"
    /\ attempt < max_retries
    /\ calls' = [calls EXCEPT !.solve = @ + 1]
    /\ tries' = [tries EXCEPT !.solve = @ + 1]
    /\ last_call' = [op |-> "solve", subgoal |-> subgoal,
                     state |-> current_state, k |-> k, info |-> attempt + 1]
    /\ \/ \E actions \in SolverPlans :
              /\ retry_ret' = SolveSuccess(actions)
              /\ solve_ret' = <<TRUE, actions>>
              /\ solved' = Append(solved, actions)
              /\ trace' = Append(trace, SolveCall(subgoal, current_state,
                                                  attempt, TRUE, actions))
              /\ pc' = "ret"
              /\ attempt' = attempt
       \/ \E actions \in FailureLists :
              /\ retry_ret' = <<FALSE, actions>>
              /\ solve_ret' = <<FALSE, actions>>
              /\ solved' = solved
              /\ trace' = Append(trace, SolveCall(subgoal, current_state,
                                                  attempt, FALSE, actions))
              /\ IF ShouldAdapt(attempt, max_retries)
                 THEN pc' = "adapt" /\ attempt' = attempt
                 ELSE pc' = "retry" /\ attempt' = attempt + 1
    /\ UNCHANGED <<variant, entry, initial_state, subgoals, k, complete_plan,
                   current_state, subgoal, max_retries, result, logged,
                   exhausted, aliased, simVars, llmVars>>

\* retry lines 51-53: adapt_plan and the rebinding of subgoal
Adapt ==
    /\ pc = "adapt"
    /\ calls' = [calls EXCEPT !.adapt = @ + 1]
    /\ tries' = [tries EXCEPT !.adapt = @ + 1]
    /\ last_call' = [op |-> "adapt", subgoal |-> subgoal,
                     state |-> NoneVal, k |-> k,
                     info |-> error_info(attempt)]
    /\ subgoal' \in Adapted(subgoal)
    /\ trace' = Append(trace, AdaptCall(subgoal, error_info(attempt),
                                        subgoal'))
    /\ attempt' = attempt + 1
    /\ pc' = "retry"
    /\ UNCHANGED <<variant, entry, initial_state, subgoals, k, complete_plan,
                   current_state, max_retries, retry_ret, result, logged,
                   exhausted, solve_ret, solved, aliased, simVars, llmVars>>

\* retry line 55: the loop ran out
RetryExhausted ==
    /\ pc = "retry"
    /\ attempt >= max_retries
    /\ retry_ret' = RetryFailure(retry_ret[2])
    /\ exhausted' = TRUE
    /\ pc' = "ret"
    /\ UNCHANGED <<variant, entry, initial_state, subgoals, k, complete_plan,
                   current_state, subgoal, attempt, max_retries, result,
                   logged, calls, tries, last_call, solve_ret, solved,
                   aliased, trace, simVars, llmVars>>

\* a direct caller of _solve_subgoal_with_retry gets its answer
RetryReturn ==
    /\ pc = "ret"
    /\ entry = "retry"
    /\ result' = retry_ret
    /\ pc' = "done"
    /\ UNCHANGED <<variant, entry, initial_state, subgoals, k, complete_plan,
                   current_state, subgoal, attempt, max_retries, retry_ret,
                   logged, calls, tries, last_call, exhausted, solve_ret,
                   solved, aliased, trace, simVars, llmVars>>

\* plan() lines 32-37: failure ends the run, success extends the plan and
\* advances the state (an exception of the update ends the run)
PlanAfterRetry ==
    /\ pc = "ret"
    /\ entry = "plan"
    /\ IF ~retry_ret[1]
       THEN /\ logged' = Append(logged, FailedRecord(subgoals[k], k))
            /\ result' = FailureResult(complete_plan)
            /\ pc' = "done"
            /\ UNCHANGED <<complete_plan, current_state, k, initial_state,
                           aliased>>
       ELSE LET r == Update(current_state, retry_ret[2])
            IN  /\ complete_plan' = complete_plan \o retry_ret[2]
                /\ current_state' = r.value
                /\ initial_state' = UpdateCaller(initial_state, aliased,
                                                 current_state, retry_ret[2])
                /\ aliased' = UpdateShares(aliased, current_state)
                /\ k' = IF r.exc = "none" THEN k + 1 ELSE k
                /\ pc' = IF r.exc = "none" THEN "for" ELSE r.exc
                /\ UNCHANGED <<logged, result>>
    /\ trace' = <<>>
    /\ UNCHANGED <<variant, entry, subgoals, subgoal, attempt,
                   max_retries, retry_ret, calls, tries, last_call,
                   exhausted, solve_ret, solved, simVars, llmVars>>

Next ==
    \/ PlanStart
    \/ PlanCallRetry
    \/ PlanReturn
    \/ Solve
    \/ Adapt
    \/ RetryExhausted
    \/ RetryReturn
    \/ PlanAfterRetry

Spec == Init /\ [][Next]_vars

\* the run goes on while it has a step to take: the interpreter executes
\* the next statement, and every call of a capability returns
FairSpec == Spec /\ WF_vars(Next)

(***************************************************************************)
(* Claims about the coordinator (checked under Spec)                       *)
(***************************************************************************)
Raised == pc \in {"TypeError", "IndexError"}

Running == pc \in {"plan", "for", "retry", "adapt", "ret"}

\* C1: when a subgoal exhausts its retry budget, after zero or more earlier
\* subgoals succeeded, plan() returns failure with an empty action list.
C1_Atomicity ==
    (entry = "plan" /\ exhausted) =>
        /\ pc \in {"ret", "done"}
        /\ pc = "done" => result = <<FALSE, <<>>>>

C1_Witness ==
    /\ entry = "plan" /\ exhausted /\ pc = "done"
    /\ Len(solved) >= 1
    /\ complete_plan # <<>>
    /\ result = <<FALSE, <<>>>>

\* C2: if every subgoal of the list was solved, plan() returns
\* Success(plan), plan being the concatenation in subgoal order of the
\* action lists of the successful solves.
C2_AllSolvedSuccess ==
    (entry = "plan" /\ ~Running /\ Len(solved) = Len(subgoals)) =>
        /\ pc = "done"
        /\ result = <<TRUE, Concat(solved)>>

\* C3: the state passed to solve for the k-th subgoal is the result of
\* applying, in order, all action tokens of subgoals 1..k-1 to the initial
\* state.
C3_StateThreading ==
    (entry = "plan" /\ last_call.op = "solve") =>
        last_call.state =
            Loop(initial_state,
                 Concat(SubSeq(solved, 1, last_call.k - 1))).state

\* C5: when every solve call fails, _solve_subgoal_with_retry with
\* max_retries = n >= 1 has issued n solve calls and n - 1 adapt calls when
\* it returns, and returns (False, []); n = 3 gives 3 and 2.
C5_RetryExhaustion ==
    (pc = "ret" /\ ~retry_ret[1] /\ max_retries >= 1) =>
        /\ tries.solve = max_retries
        /\ tries.adapt = max_retries - 1
        /\ retry_ret = <<FALSE, <<>>>>

C5_Witness ==
    /\ pc = "ret" /\ exhausted /\ ~retry_ret[1]
    /\ max_retries = 3
    /\ tries = [solve |-> 3, adapt |-> 2]
    /\ retry_ret = <<FALSE, <<>>>>

\* C15: plan() never mutates the caller's initial_state, on the success
\* and on the failure path: no step of a run changes the dict or its lists.
C15_InitialStateUnchanged == [][initial_state' = initial_state]_vars

C15_Witness ==
    /\ entry = "plan" /\ pc = "done"
    /\ initial_state \in InitialStates
    /\ Len(solved) >= 1
    /\ exhausted
    /\ Loop(initial_state, Concat(solved)).state.ontable
           # initial_state.ontable

\* the calls of trace up to position j that are adapt calls
AdaptsUpTo(j) == Cardinality({n \in 1..j : trace[n].op = "adapt"})

\* the call that comes next is a solve call with subgoal sg and state s
SolveIsNext(sg, s) ==
    /\ pc = "retry" /\ attempt < max_retries
    /\ subgoal = sg /\ current_state = s

\* C17: in _solve_subgoal_with_retry every adapt call comes right after a
\* failed solve call that was not the final attempt, and right before a
\* solve call with the subgoal that adapt call returned and the state of
\* the failed attempt; the i-th adapt call is told attempt number i.
C17_AdaptationOrdering ==
    \A j \in 1..Len(trace) :
        trace[j].op = "adapt" =>
            /\ j > 1
            /\ trace[j - 1].op = "solve" /\ ~trace[j - 1].ok
            /\ trace[j - 1].info < max_retries
            /\ trace[j].subgoal = trace[j - 1].subgoal
            /\ trace[j].info = AdaptsUpTo(j)
            /\ IF j < Len(trace)
               THEN /\ trace[j + 1].op = "solve"
                    /\ trace[j + 1].subgoal = trace[j].adapted
                    /\ trace[j + 1].state = trace[j - 1].state
               ELSE SolveIsNext(trace[j].adapted, trace[j - 1].state)

C17_Witness ==
    /\ pc = "ret" /\ max_retries = 3
    /\ Len(trace) = 5
    /\ trace[2].op = "adapt" /\ trace[2].info = 1
    /\ trace[4].op = "adapt" /\ trace[4].info = 2
    /\ trace[3].subgoal = trace[2].adapted
    /\ trace[5].subgoal = trace[4].adapted
    /\ trace[5].subgoal # trace[3].subgoal
    /\ trace[3].subgoal # trace[1].subgoal
    /\ trace[5].op = "solve"

\* C18: when the solve call of attempt i succeeds, _solve_subgoal_with_retry
\* returns (True, the actions of that call); that call is the last one
\* issued for the subgoal, i solve calls (the earlier ones failed) and
\* i - 1 adapt calls were issued, and 1 <= i <= max_retries.
C18_SuccessShortCircuit ==
    ((pc = "ret" \/ (pc = "done" /\ entry = "retry")) /\ retry_ret[1]) =>
        /\ trace # <<>>
        /\ LET last == trace[Len(trace)]
           IN  /\ last.op = "solve" /\ last.ok
               /\ retry_ret = <<TRUE, last.actions>>
               /\ last.info >= 1 /\ last.info <= max_retries
               /\ tries.solve = last.info
               /\ tries.adapt = last.info - 1
               /\ AdaptsUpTo(Len(trace)) = last.info - 1
               /\ Len(trace) = 2 * last.info - 1
               /\ \A j \in 1..(Len(trace) - 1) :
                      trace[j].op = "solve" => ~trace[j].ok

C18_Witness ==
    /\ pc = "done" /\ entry = "retry"
    /\ result[1] /\ Len(result[2]) = 2
    /\ Len(trace) = 3
    /\ trace[3].info = 2 /\ trace[3].ok
    /\ result[2] = trace[3].actions
    /\ tries = [solve |-> 2, adapt |-> 1]

\* C19: once a subgoal has exhausted its retries, plan() issues no solve,
\* adapt or simulate call any more, and when it returns it has logged
\* one record, naming the id that subgoal has in the conflict-resolved
\* list, and reports failure.
C19_AbortOnFirstFailure ==
    [][(entry = "plan" /\ exhausted) =>
          /\ calls' = calls
          /\ k' = k /\ complete_plan' = complete_plan
          /\ current_state' = current_state
          /\ pc' = "done"
          /\ logged' = <<subgoals[k].subgoal_id>>
          /\ ~result'[1]]_vars

C19_Witness ==
    /\ entry = "plan" /\ pc = "done" /\ exhausted
    /\ k = 3 /\ Len(subgoals) = 3
    /\ subgoals[k].subgoal_id # k
    /\ subgoal.subgoal_id # subgoals[k].subgoal_id
    /\ logged = <<subgoals[k].subgoal_id>>
    /\ calls.solve = 5


\* the strings that come with a failed solve
DiagnosticStrings == UNION {ToSet(actions) : actions \in FailureLists}

NoDiagnostic(actions) == ToSet(actions) \cap DiagnosticStrings = {}

\* plan() hands the list of the retry to the composed plan and to the
\* simulator: the step of lines 36-37
Composes == pc = "ret" /\ entry = "plan" /\ pc' # "done"

\* C23: whenever _solve_subgoal_with_retry returns ok = false its action
\* list is empty, even when the failed solves came with a non-empty list;
\* so no diagnostic string of a failed solve is ever appended to the
\* composed plan or passed to the simulator.
C23_FailureResultEmpty ==
    /\ []((pc = "ret" /\ ~retry_ret[1]) => retry_ret[2] = <<>>)
    /\ []((pc = "done" /\ ~result[1]) => result[2] = <<>>)
    /\ [](NoDiagnostic(complete_plan))
    /\ [][Composes =>
              /\ retry_ret[1]
              /\ NoDiagnostic(retry_ret[2])
              /\ complete_plan' = complete_plan \o retry_ret[2]]_vars

C23_Witness ==
    /\ entry = "plan" /\ pc = "ret"
    /\ ~retry_ret[1] /\ retry_ret[2] = <<>>
    /\ ~solve_ret[1] /\ solve_ret[2] # <<>>
    /\ tries.solve = DefaultMaxRetries
    /\ complete_plan # <<>>
    /\ NoDiagnostic(complete_plan)


\* the calls plan() has issued stay within N * m solve calls and
\* N * (m - 1) adapt calls, N subgoals and retry budget m
CallsBounded ==
    entry = "plan" =>
        /\ calls.solve <= Len(subgoals) * max_retries
        /\ calls.adapt <= Len(subgoals) * (max_retries - 1)

\* a solve or adapt call is a step of its own, issued for the subgoal the
\* loop is at, when exactly the subgoals before it are solved
CallsInOrder ==
    [][(entry = "plan" /\ calls' # calls) =>
          /\ calls'.solve + calls'.adapt = calls.solve + calls.adapt + 1
          /\ last_call'.k = k
          /\ last_call'.k >= last_call.k
          /\ Len(solved) = k - 1]_vars

\* a run of plan() ends, with a result or with an exception
PlanEnds == <>(entry = "plan" => (pc = "done" \/ Raised))

\* a run of plan() of hybrid_coordinator, whose update applies no token,
\* ends with a result
GenericPlanEnds ==
    <>((entry = "plan" /\ variant = "generic") => pc = "done")

\* C24: with every external call returning, a plan() run over N subgoals
\* with retry budget m always terminates with a success or failure result
\* after at most N * m solve calls and at most N * (m - 1) adapt calls, and
\* the calls are issued one at a time in subgoal order, never a call for
\* subgoal k + 1 before subgoal k is solved.
C24_BoundedTermination ==
    /\ <>(entry = "plan" => pc = "done")
    /\ [](CallsBounded)
    /\ CallsInOrder

====
